---------------------------- MODULE Spec2Model ----------------------------
(***************************************************************************)
(* Model of the multi-site scraping engine of Smart_Ecommerce_Project:     *)
(*   src/agent_scraping/diverse_scraper.py        (DiverseScraper, "cli")  *)
(*   src/agent_scraping/app_streamlit_scraping.py (StreamlitDiverseScraper,*)
(*                                                 "streamlit")            *)
(* The two classes share _make_request, _clean_text, _extract_price,       *)
(* _extract_product_data, _get_next_page_url and scrape_site_category      *)
(* almost line for line; where they differ the model branches on the       *)
(* variable `cls`.                                                         *)
(*                                                                         *)
(* Texts are sequences of one-character strings.  Decimal numbers are      *)
(* records [m, e] standing for m / 10^e, kept normalised (no trailing      *)
(* zero in the fraction), so that 1234.50 and 1234.5 are the same value.   *)
(***************************************************************************)
EXTENDS Integers, Sequences, FiniteSets, TLC

(***************************************************************************)
(* Bounds of the model.                                                    *)
(***************************************************************************)
NUrls == 2          \* distinct page URLs of a site: 1..NUrls
MaxPagesCap == 3    \* max_pages is drawn from 1..MaxPagesCap
MaxElems == 2       \* elements on one markup page / items of one JSON list
MaxRetries == 4     \* retries of a direct _make_request call: 0..MaxRetries
MaxTarget == 3      \* target_products of a driver run: 1 or MaxTarget

(***************************************************************************)
(* Program constants.                                                      *)
(***************************************************************************)
DefaultRetries == 3     \* def _make_request(self, url, retries=3)
CleanTextLimit == 300   \* return text[:300]
ElemTextSlice == 100    \* product_element.get_text()[:100]
JsonTitleSlice == 50    \* json_element.get('title', ...)[:50]

None == [t |-> "None"]

(***************************************************************************)
(* Decimal numbers.                                                        *)
(***************************************************************************)
RECURSIVE Pow(_, _)
Pow(b, n) == IF n = 0 THEN 1 ELSE b * Pow(b, n - 1)

RECURSIVE DecNorm(_)
DecNorm(d) ==
    IF d.e > 0 /\ d.m % 10 = 0 THEN DecNorm([m |-> d.m \div 10, e |-> d.e - 1])
    ELSE d

Dec(m, e) == DecNorm([m |-> m, e |-> e])
DecInt(n) == [m |-> n, e |-> 0]
DecLE(a, b) == a.m * Pow(10, b.e) <= b.m * Pow(10, a.e)
DecMul(a, k) == DecNorm([m |-> a.m * k, e |-> a.e])

\* round(x, 2) on a decimal: half-even on the exact decimal value
DecRound2(d) ==
    IF d.e <= 2 THEN d
    ELSE LET p == Pow(10, d.e - 2)
             a == IF d.m < 0 THEN -d.m ELSE d.m
             q == a \div p
             r == a % p
             up == (2 * r > p) \/ (2 * r = p /\ q % 2 = 1)
             v == IF up THEN q + 1 ELSE q
         IN  Dec(IF d.m < 0 THEN -v ELSE v, 2)

(***************************************************************************)
(* Texts.                                                                  *)
(***************************************************************************)
Digits == {"0", "1", "2", "3", "4", "5", "6", "7", "8", "9"}
DigitVal(c) ==
    CASE c = "0" -> 0 [] c = "1" -> 1 [] c = "2" -> 2 [] c = "3" -> 3
      [] c = "4" -> 4 [] c = "5" -> 5 [] c = "6" -> 6 [] c = "7" -> 7
      [] c = "8" -> 8 [] c = "9" -> 9

Whitespace == {" ", "\n", "\t", "\r"}

Take(s, n) == IF Len(s) <= n THEN s ELSE SubSeq(s, 1, n)

\* str.lower() on the letters the page texts use
LowerChar(c) ==
    CASE c = "O" -> "o" [] c = "I" -> "i" [] c = "N" -> "n" [] c = "R" -> "r"
      [] c = "S" -> "s" [] c = "A" -> "a" [] c = "P" -> "p"
      [] OTHER -> c
Lower(s) == [i \in 1..Len(s) |-> LowerChar(s[i])]

\* pat in s  (substring test)
Contains(s, pat) ==
    \E i \in 1..(Len(s) - Len(pat) + 1) : SubSeq(s, i, i + Len(pat) - 1) = pat

\* str.replace(old, new) for a single character old
ReplaceChar(s, old, new) == [i \in 1..Len(s) |-> IF s[i] = old THEN new ELSE s[i]]
\* the separators left in place
RemoveCharKept(s, old) == s
\* str.replace(old, '') for a single character old
RemoveChar(s, old) == SelectSeq(s, LAMBDA c : c # old)

\* str.strip()
RECURSIVE LStrip(_)
LStrip(s) == IF s # <<>> /\ Head(s) \in Whitespace THEN LStrip(Tail(s)) ELSE s
RECURSIVE RStrip(_)
RStrip(s) ==
    IF s # <<>> /\ s[Len(s)] \in Whitespace THEN RStrip(SubSeq(s, 1, Len(s) - 1)) ELSE s
Strip(s) == RStrip(LStrip(s))

\* re.sub(r'\s+', ' ', s): every run of whitespace becomes one space
RECURSIVE CollapseWs(_)
CollapseWs(s) ==
    IF s = <<>> THEN <<>>
    ELSE IF Head(s) \in Whitespace
         THEN <<" ">> \o CollapseWs(LStrip(s))
         ELSE <<Head(s)>> \o CollapseWs(Tail(s))

\* _clean_text
clean_text(text) ==
    IF text = <<>> THEN <<>>
    ELSE LET t1 == CollapseWs(Strip(text))
             t2 == ReplaceChar(ReplaceChar(ReplaceChar(t1, ";", ","), "\n", " "), "\r", " ")
         IN  Take(t2, CleanTextLimit)

(***************************************************************************)
(* re.search(r'[\d,]+\.?\d*', text.replace(',', '')) followed by float().  *)
(* After the commas are removed the class [\d,] can only match digits, so  *)
(* the leftmost match starts at the first digit: digits, an optional dot,  *)
(* then the digits that follow it.                                         *)
(***************************************************************************)
RECURSIVE DigitRun(_)
DigitRun(s) ==
    IF s # <<>> /\ Head(s) \in Digits THEN <<Head(s)>> \o DigitRun(Tail(s)) ELSE <<>>

RECURSIVE DropToDigit(_)
DropToDigit(s) ==
    IF s = <<>> \/ Head(s) \in Digits THEN s ELSE DropToDigit(Tail(s))

RECURSIVE DigitsVal(_)
DigitsVal(ds) ==
    IF ds = <<>> THEN 0 ELSE 10 * DigitsVal(SubSeq(ds, 1, Len(ds) - 1)) + DigitVal(ds[Len(ds)])

\* the match as [found, int, frac]: the digit runs before and after the dot
PriceMatch(text) ==
    LET s == DropToDigit(RemoveChar(text, ","))
        ip == DigitRun(s)
        rest == SubSeq(s, Len(ip) + 1, Len(s))
        fp == IF rest # <<>> /\ Head(rest) = "." THEN DigitRun(Tail(rest)) ELSE <<>>
    IN  [found |-> s # <<>>, int |-> ip, frac |-> fp]

\* float(price_match.group())
FloatOf(mt) == Dec(DigitsVal(mt.int \o mt.frac), Len(mt.frac))


(***************************************************************************)
(* Parsed documents.  A tag that select_one() found is a record with       *)
(* t = "Tag"; a selector that matched nothing gives None.  A Tag is always *)
(* truthy in BeautifulSoup, so `if not price_element` tests for None only. *)
(*   element: [sels, text, title, price, avail, rating, link]              *)
(*     sels   the container selectors the element matches                  *)
(*     text   product_element.get_text()                                   *)
(*     title  None or [text, attr]   (attr: None or the title attribute)   *)
(*     price, avail  None or [text]                                        *)
(*     rating None or [class, text]  (class: the list of class tokens)     *)
(*     link   None or [href]  (href: None, or a reference, see urljoin)    *)
(***************************************************************************)
IsNone(x) == x.t = "None"
Tag(fields) == [t |-> "Tag"] @@ fields
Str(s) == [t |-> "Str", s |-> s]

Urls == 1..NUrls
\* A reference is 0 (an empty or fragment-only href) or the URL it names.
Hrefs == {0} \cup Urls
\* urllib.parse.urljoin(base, ref): an empty reference resolves to the base itself
urljoin(base, ref) == IF ref = 0 THEN base ELSE ref

\* random.choice([19.99, 29.99, 49.99, 79.99, 99.99])
PriceDefaults == {Dec(1999, 2), Dec(2999, 2), Dec(4999, 2), Dec(7999, 2), Dec(9999, 2)}
\* random.choice([3, 3.5, 4, 4.5, 5])
RatingDefaults == {Dec(3, 0), Dec(35, 1), Dec(4, 0), Dec(45, 1), Dec(5, 0)}

\* _extract_price: the set of values it can return (str(float(...)) of both
\* classes denotes the decimal itself)
extract_price(price_element) ==
    IF IsNone(price_element) THEN PriceDefaults
    ELSE LET price_text == clean_text(price_element.text)
             price_match == PriceMatch(price_text)
         IN  IF price_match.found THEN {FloatOf(price_match)} ELSE PriceDefaults

\* rating_map = {'One': '1', 'Two': '2', 'Three': '3', 'Four': '4', 'Five': '5'}
rating_map ==
    [One |-> Dec(1, 0), Two |-> Dec(2, 0), Three |-> Dec(3, 0), Four |-> Dec(4, 0),
     Five |-> Dec(5, 0)]

\* for cls in rating_classes: if cls in rating_map: rating = rating_map[cls]; break
\* ("" when no class token is in the map)
RECURSIVE FirstMapped(_)
FirstMapped(classes) ==
    IF classes = <<>> THEN None
    ELSE IF Head(classes) \in DOMAIN rating_map THEN rating_map[Head(classes)]
         ELSE FirstMapped(Tail(classes))

InSeq(x, s) == \E i \in 1..Len(s) : s[i] = x

\* the title of _extract_product_data
ExtractTitle(product_element) ==
    LET title_elem == product_element.title
        t0 == clean_text(IF IsNone(title_elem) THEN <<>> ELSE title_elem.text)
        t1 == IF ~IsNone(title_elem) /\ ~IsNone(title_elem.attr)
              THEN (IF t0 # <<>> THEN t0 ELSE clean_text(title_elem.attr.s))
              ELSE t0
    IN  IF t1 # <<>> THEN t1 ELSE clean_text(Take(product_element.text, ElemTextSlice))

\* an availability test that knows the token 'out' only
ExtractAvailabilityOutOnly(product_element) ==
    LET avail_elem == product_element.avail
    IN  IF IsNone(avail_elem) THEN "Disponible"
        ELSE IF Contains(Lower(clean_text(avail_elem.text)), <<"o", "u", "t">>)
             THEN "Rupture" ELSE "Disponible"

\* the availability of _extract_product_data
ExtractAvailability(product_element) ==
    LET avail_elem == product_element.avail
    IN  IF IsNone(avail_elem) THEN "Disponible"
        ELSE LET avail_text == Lower(clean_text(avail_elem.text))
             IN  IF Contains(avail_text, <<"o", "u", "t">>)
                    \/ Contains(avail_text, <<"r", "u", "p", "t", "u", "r", "e">>)
                 THEN "Rupture" ELSE "Disponible"

\* the rating of _extract_product_data: the set of values it can take
ExtractRating(product_element) ==
    LET rating_elem == product_element.rating
        fromClass == IF IsNone(rating_elem) THEN None ELSE FirstMapped(rating_elem.class)
    IN  IF IsNone(rating_elem) THEN RatingDefaults
        ELSE IF InSeq("star-rating", rating_elem.class)
             THEN (IF "t" \in DOMAIN fromClass THEN RatingDefaults ELSE {fromClass})
             ELSE extract_price(rating_elem)

\* category_name.split('_')[0] if '_' in category_name else category_name,
\* a name being the sequence of its '_'-separated words
SourceOf(category_name) == <<Head(category_name)>>

Raised == [ok |-> FALSE]
Returned(p) == [ok |-> TRUE, p |-> p]

\* _extract_product_data: the set of its outcomes for one element, a returned
\* product or an exception.  cls is the class ("cli" or "streamlit"): only
\* the Streamlit class adds the 'source' key.  selectors maps a field to
\* "css" (a selector text) or "None": select_one(None) raises, which is what
\* the 'price': None entry of quotes_to_scrape leads to.  description,
\* vendeur and categorie are left out: no control flow and no property reads
\* them.
extract_product_data(cls, product_element, category_name, page_url, selectors) ==
    LET link_elem == product_element.link
        product_link == IF ~IsNone(link_elem) /\ ~IsNone(link_elem.href)
                        THEN urljoin(page_url, link_elem.href.ref) ELSE page_url
    IN  IF selectors.price = "None" \/ selectors.rating = "None" THEN {Raised}
        ELSE
        { Returned([titre |-> ExtractTitle(product_element),
                    prix |-> price,
                    disponibilite |-> ExtractAvailability(product_element),
                    note_moyenne |-> rating,
                    lien_produit |-> product_link,
                    source |-> IF cls = "streamlit" THEN Str(SourceOf(category_name))
                               ELSE None]) :
          price \in extract_price(product_element.price),
          rating \in ExtractRating(product_element) }

(***************************************************************************)
(* JSON values: [t |-> "str", s], [t |-> "num", n], [t |-> "null"],        *)
(* [t |-> "list", items] and [t |-> "dict", d] with d a function from keys *)
(* to JSON values.                                                         *)
(***************************************************************************)
JStr(s) == [t |-> "str", s |-> s]
JNum(n) == [t |-> "num", n |-> n]
JNull == [t |-> "null"]
JList(items) == [t |-> "list", items |-> items]
JDict(d) == [t |-> "dict", d |-> d]
EmptyDict == [k \in {} |-> JNull]

\* dict.get(key, default)
Get(d, key, default) == IF key \in DOMAIN d THEN d[key] ELSE default

\* random.uniform(9.99, 99.99): the two ends and an inner value with more
\* than two decimals
UniformSamples == {Dec(999, 2), Dec(54321, 3), Dec(9999, 2)}

\* float(x) succeeds on a number and on a text that is a plain decimal
IsPlainDecimal(s) ==
    LET mt == PriceMatch(s)
    IN  /\ s # <<>> /\ Head(s) \in Digits /\ ~InSeq(",", s)
        /\ Len(s) = Len(mt.int) + Len(mt.frac) + (IF InSeq(".", s) THEN 1 ELSE 0)
CanFloat(v) == v.t = "num" \/ (v.t = "str" /\ IsPlainDecimal(v.s))
ToFloat(v) == IF v.t = "num" THEN v.n ELSE FloatOf(PriceMatch(v.s))

\* _clean_text(x) on a JSON value: falsy values give "", a text is cleaned,
\* anything else has no strip() and raises
CleanFalsy(v) ==
    \/ v.t = "null"
    \/ (v.t = "str" /\ v.s = <<>>)
    \/ (v.t = "num" /\ v.n.m = 0)
    \/ (v.t = "list" /\ v.items = <<>>)
    \/ (v.t = "dict" /\ DOMAIN v.d = {})
CleanRaises(v) == ~CleanFalsy(v) /\ v.t # "str"

DigitalItem == <<"D", "i", "g", "i", "t", "a", "l", " ", "I", "t", "e", "m">>

\* DiverseScraper._create_product_from_json: the set of outcomes
create_product_from_json_cli(json_element, url) ==
    IF json_element.t # "dict" THEN {Raised}
    ELSE
    LET d == json_element.d
        tv == Get(d, "title", Get(d, "name", JStr(<<>>)))
        bv == Get(d, "body", Get(d, "title", JStr(<<>>)))
        t0 == clean_text(Take(tv.s, JsonTitleSlice))
        title == IF t0 = <<>> THEN DigitalItem ELSE t0
        prices == IF "id" \in DOMAIN d
                  THEN {DecRound2(DecMul(ToFloat(d["id"]), 2))}
                  ELSE UniformSamples
    IN  IF tv.t # "str" THEN {Raised}
        ELSE IF "id" \in DOMAIN d /\ ~CanFloat(d["id"]) THEN {Raised}
        ELSE IF bv.t # "str" THEN {Raised}
        ELSE { Returned([titre |-> title, prix |-> price, disponibilite |-> av,
                         note_moyenne |-> rating, lien_produit |-> url,
                         source |-> None]) :
               price \in prices, av \in {"Disponible", "Rupture"},
               rating \in RatingDefaults }

\* StreamlitDiverseScraper._create_product_from_json: the set of outcomes
create_product_from_json_st(json_element, category_name, url) ==
    IF json_element.t # "dict" THEN {Raised}
    ELSE
    LET d == json_element.d
        hasTitle == "title" \in DOMAIN d \/ "name" \in DOMAIN d
        tv == IF "title" \in DOMAIN d THEN d["title"]
              ELSE IF "name" \in DOMAIN d THEN d["name"] ELSE JStr(DigitalItem)
        t0 == clean_text(Take(tv.s, JsonTitleSlice))
        title == IF t0 = <<>> THEN DigitalItem ELSE t0
        pv == Get(d, "price", JNull)
        prices == IF "price" \in DOMAIN d /\ pv.t = "num" THEN {pv.n} ELSE UniformSamples
        bodyv == Get(d, "body", JStr(<<>>))
        descv == Get(d, "description", JStr(<<>>))
        vendorv == Get(d, "brand", Get(d, "author", JStr(<<>>)))
        rv == Get(d, "rating", JDict(EmptyDict))
        hasRate == rv.t = "dict" /\ "rate" \in DOMAIN rv.d
        ratev == IF hasRate THEN rv.d["rate"] ELSE JNull
        ratings == IF hasRate /\ ratev.t # "dict" THEN {ToFloat(ratev)} ELSE RatingDefaults
    IN  IF hasTitle /\ tv.t # "str" THEN {Raised}
        ELSE IF bodyv.t # "str" THEN {Raised}
        ELSE IF CleanRaises(descv) THEN {Raised}
        ELSE IF rv.t # "dict" THEN {Raised}
        ELSE IF hasRate /\ ratev.t # "dict" /\ ~CanFloat(ratev) THEN {Raised}
        ELSE IF CleanRaises(vendorv) THEN {Raised}
        ELSE { Returned([titre |-> title, prix |-> DecRound2(price),
                         disponibilite |-> av, note_moyenne |-> rating,
                         lien_produit |-> url,
                         source |-> Str(SourceOf(category_name))]) :
               price \in prices, av \in {"Disponible", "Rupture"},
               rating \in ratings }

create_product_from_json(cls, json_element, category_name, url) ==
    IF cls = "cli" THEN create_product_from_json_cli(json_element, url)
    ELSE create_product_from_json_st(json_element, category_name, url)


(***************************************************************************)
(* Pagination.  page.links is what soup.select(pagination selector)        *)
(* returns, in document order: records [href, text, rel], href None or     *)
(* [ref].                                                                  *)
(***************************************************************************)
NextWords ==
    { <<"n", "e", "x", "t">>, <<"s", "u", "i", "v", "a", "n", "t">>, <<">">>, <<"»">> }

\* _get_next_page_url
RECURSIVE get_next_page_url(_, _)
get_next_page_url(next_links, current_url) ==
    IF next_links = <<>> THEN None
    ELSE LET link == Head(next_links)
             link_text == Lower(clean_text(link.text))
         IN  IF ~IsNone(link.href) /\ (\E word \in NextWords : Contains(link_text, word))
             THEN [t |-> "Url", url |-> urljoin(current_url, link.href.ref)]
             ELSE get_next_page_url(Tail(next_links), current_url)

(***************************************************************************)
(* Container selection of scrape_site_category.  "product_container"       *)
(* stands for the site's configured container selector.                    *)
(***************************************************************************)
ContainerSelector == "product_container"
AltSelectors == <<"article", ".item", ".product-item", "li", ".product-grid">>

\* soup.select(selector): the matching elements in document order
Select(page, selector) == SelectSeq(page.elems, LAMBDA e : selector \in e.sels)

\* a fallback loop without its break: the last selector that matches wins
RECURSIVE TryAlternativesNoBreak(_, _, _)
TryAlternativesNoBreak(page, alts, consulted) ==
    IF alts = <<>> THEN [elements |-> <<>>, consulted |-> consulted]
    ELSE LET product_elements == Select(page, Head(alts))
             later == TryAlternativesNoBreak(page, Tail(alts), Append(consulted, Head(alts)))
         IN  IF later.elements # <<>> \/ product_elements = <<>> THEN later
             ELSE [elements |-> product_elements, consulted |-> later.consulted]

\* for alt_selector in [...]: product_elements = soup.select(alt_selector);
\*     if product_elements: break
\* [elements, consulted]: the last selection made and the selectors tried
RECURSIVE TryAlternatives(_, _, _)
TryAlternatives(page, alts, consulted) ==
    IF alts = <<>> THEN [elements |-> <<>>, consulted |-> consulted]
    ELSE LET product_elements == Select(page, Head(alts))
         IN  IF product_elements # <<>>
             THEN [elements |-> product_elements, consulted |-> Append(consulted, Head(alts))]
             ELSE TryAlternatives(page, Tail(alts), Append(consulted, Head(alts)))

SelectContainers(page) ==
    LET product_elements == Select(page, ContainerSelector)
    IN  IF product_elements # <<>>
        THEN [elements |-> product_elements, consulted |-> <<ContainerSelector>>]
        ELSE TryAlternatives(page, AltSelectors, <<ContainerSelector>>)

(***************************************************************************)
(* The extraction loops of scrape_site_category, as the set of lists they  *)
(* can append.                                                             *)
(***************************************************************************)
\* an extraction loop that ends at the first element that gives no product
RECURSIVE ExtractAllStopAtFailure(_, _, _, _, _)
ExtractAllStopAtFailure(cls, product_elements, category_name, page_url, selectors) ==
    IF product_elements = <<>> THEN {<<>>}
    ELSE LET outs == extract_product_data(cls, Head(product_elements), category_name,
                                          page_url, selectors)
             rests == ExtractAllStopAtFailure(cls, Tail(product_elements), category_name,
                                              page_url, selectors)
         IN  { IF o.ok /\ o.p.titre # <<>> THEN <<o.p>> \o r ELSE <<>> :
               o \in outs, r \in rests }

\* for product_elem in product_elements: try: ... if product_data['titre']:
\*     products.append(product_data)  except Exception: continue
RECURSIVE ExtractAll(_, _, _, _, _)
ExtractAll(cls, product_elements, category_name, page_url, selectors) ==
    IF product_elements = <<>> THEN {<<>>}
    ELSE LET outs == extract_product_data(cls, Head(product_elements), category_name,
                                          page_url, selectors)
             rests == ExtractAll(cls, Tail(product_elements), category_name, page_url,
                                 selectors)
         IN  { (IF o.ok /\ o.p.titre # <<>> THEN <<o.p>> ELSE <<>>) \o r :
               o \in outs, r \in rests }

\* a JSON loop whose failure discards what the earlier items appended
RECURSIVE JsonItemsDiscard(_, _, _, _)
JsonItemsDiscard(cls, items, category_name, url) ==
    IF items = <<>> THEN {[appended |-> <<>>, raised |-> FALSE]}
    ELSE LET outs == create_product_from_json(cls, Head(items), category_name, url)
             rests == JsonItemsDiscard(cls, Tail(items), category_name, url)
         IN  { IF o.ok /\ ~r.raised
               THEN [appended |-> (IF o.p.titre # <<>> THEN <<o.p>> ELSE <<>>) \o r.appended,
                     raised |-> FALSE]
               ELSE [appended |-> <<>>, raised |-> TRUE] :
               o \in outs, r \in rests }

\* for item in json_data: product = self._create_product_from_json(...);
\*     if product['titre']: products.append(product)
\* inside the try of the JSON branch: an exception ends the loop and keeps
\* what was appended.  [appended, raised]
RECURSIVE JsonItems(_, _, _, _)
JsonItems(cls, items, category_name, url) ==
    IF items = <<>> THEN {[appended |-> <<>>, raised |-> FALSE]}
    ELSE LET outs == create_product_from_json(cls, Head(items), category_name, url)
             rests == JsonItems(cls, Tail(items), category_name, url)
         IN  { IF o.ok
               THEN [appended |-> (IF o.p.titre # <<>> THEN <<o.p>> ELSE <<>>) \o r.appended,
                     raised |-> r.raised]
               ELSE [appended |-> <<>>, raised |-> TRUE] :
               o \in outs, r \in rests }

\* The JSON branch on a response body: "invalid" when response.json() raises,
\* else the parsed JSON value.
JsonBranch(cls, body, category_name, url) ==
    IF body.t = "invalid" THEN {[appended |-> <<>>, raised |-> TRUE]}
    ELSE LET json_data == IF cls = "streamlit" /\ body.t = "dict" /\ "products" \in DOMAIN body.d
                          THEN body.d["products"] ELSE body
         IN  IF json_data.t = "list"
             THEN JsonItems(cls, json_data.items, category_name, url)
             ELSE JsonItems(cls, <<json_data>>, category_name, url)


(***************************************************************************)
(* Site configurations (diverse_sites).  A name is the sequence of its     *)
(* '_'-separated words.                                                    *)
(***************************************************************************)
CssSelectors == [price |-> "css", rating |-> "css"]
\* quotes_to_scrape: 'price': None, 'rating': None
NoneSelectors == [price |-> "None", rating |-> "None"]

SiteBooks == [name |-> <<"books", "demo">>, category |-> <<"travel">>, selectors |-> CssSelectors]
SiteJsonPlaceholder ==
    [name |-> <<"jsonplaceholder">>, category |-> <<"posts">>, selectors |-> CssSelectors]
SiteQuotes ==
    [name |-> <<"quotes", "to", "scrape">>, category |-> <<"love">>, selectors |-> NoneSelectors]
SiteDummy ==
    [name |-> <<"dummy", "products">>, category |-> <<"mens", "clothing">>,
     selectors |-> CssSelectors]

SitesOf(cls) ==
    IF cls = "cli" THEN {SiteBooks, SiteJsonPlaceholder}
    ELSE {SiteBooks, SiteQuotes, SiteDummy}

\* the Streamlit class testing for 'jsonplaceholder' alone
IsJsonSiteOneName(cls, name) == InSeq("jsonplaceholder", name)

\* if 'jsonplaceholder' in site_name [or 'dummy_products' in site_name or
\* 'fake_store' in site_name]
IsJsonSite(cls, name) ==
    \/ InSeq("jsonplaceholder", name)
    \/ /\ cls = "streamlit"
       /\ (Contains(name, <<"dummy", "products">>) \/ Contains(name, <<"fake", "store">>))

(***************************************************************************)
(* Responses the sites can give.                                           *)
(***************************************************************************)
TxtA == <<"A">>
TxtB == <<"B">>
TxtPrice == <<"£", "5", "1", ".", "7", "7">>
TxtInStock == <<"I", "n", " ", "s", "t", "o", "c", "k">>
TxtOutOfStock == <<"O", "u", "t", " ", "o", "f", " ", "s", "t", "o", "c", "k">>
TxtReviews == <<"1", "4", " ", "r", "e", "v", "i", "e", "w", "s">>
TxtNext == <<"N", "e", "x", "t">>
TxtBlank == <<" ", "\n">>

Href(ref) == [t |-> "Str", ref |-> ref]

\* a books.toscrape product pod
ContentA ==
    [text |-> TxtA,
     title |-> Tag([text |-> TxtA, attr |-> Str(TxtA)]),
     price |-> Tag([text |-> TxtPrice]),
     avail |-> Tag([text |-> TxtInStock]),
     rating |-> Tag([class |-> <<"star-rating", "Three">>, text |-> <<>>]),
     link |-> Tag([href |-> Href(1)])]
\* a webscraper.io card: its .ratings block holds the review count
ContentB ==
    [text |-> TxtB,
     title |-> Tag([text |-> TxtB, attr |-> None]),
     price |-> Tag([text |-> TxtPrice]),
     avail |-> Tag([text |-> TxtOutOfStock]),
     rating |-> Tag([class |-> <<"ratings">>, text |-> TxtReviews]),
     link |-> Tag([href |-> Href(1)])]
\* an element with no text at all
ContentBlank ==
    [text |-> TxtBlank, title |-> None, price |-> None, avail |-> None, rating |-> None,
     link |-> None]

Elem(sels, content) == [sels |-> sels] @@ content

ElemA == Elem({"product_container", "article"}, ContentA)
ElemB == Elem({"product_container"}, ContentB)
ElemBlank == Elem({"product_container"}, ContentBlank)
ElemLi == Elem({".item", "li"}, ContentB)

SeqsUpTo(S, n) == UNION { [1..k -> S] : k \in 0..n }

NextLink(ref) == [href |-> Href(ref), text |-> TxtNext, rel |-> FALSE]
WalkLinks == {<<>>} \cup { <<NextLink(ref)>> : ref \in Hrefs }

\* the pages a markup site serves to the walker
Pages ==
    [elems : { <<>>, <<ElemBlank>>, <<ElemA>>, <<ElemLi>>, <<ElemA, ElemBlank, ElemB>> },
     links : WalkLinks]

Rate(n) == JDict([rate |-> JNum(n)])
\* a fakestoreapi product
ItemTitled ==
    JDict([title |-> JStr(TxtA), id |-> JNum(Dec(1, 0)), price |-> JNum(Dec(999, 2)),
           rating |-> Rate(Dec(39, 1))])
\* a record without 'title' and 'name'
ItemNoTitle ==
    JDict([id |-> JNum(Dec(3, 0)), price |-> JNum(Dec(999, 2)), rating |-> Rate(Dec(39, 1))])
\* "title": null
ItemNullTitle == JDict([title |-> JNull, id |-> JNum(Dec(4, 0))])

\* the bodies a JSON site serves to the walker
JsonBodies ==
    { [t |-> "invalid"],
      JList(<<>>), JList(<<ItemTitled>>), JList(<<ItemNoTitle, ItemTitled>>),
      JList(<<ItemTitled, ItemNullTitle, ItemTitled>>),
      JDict([products |-> JList(<<ItemTitled>>)]),
      ItemTitled, JNull }

(***************************************************************************)
(* State.                                                                  *)
(*   cls, site, max_pages, retries   the class and the arguments           *)
(*   pc                              position in scrape_site_category /    *)
(*                                   _make_request                         *)
(*   current_url, page_count, products   locals of scrape_site_category    *)
(*   attempt, response               the frame of _make_request and its    *)
(*                                   result, until the caller has read it  *)
(*   ret                             the returned list                     *)
(* History of the run, read by the properties only:                        *)
(*   gets       number of requests.get calls of the current _make_request  *)
(*   waits      the time.sleep durations of the current _make_request      *)
(*   ended      the statement that ended the while loop                    *)
(*   fetched    the URLs passed to _make_request, in order                 *)
(*   delayed    a _random_delay ran since the last requests.get            *)
(*   pageLists  what each processed page appended                          *)
(*   failedEmpty  an earlier crawl of this scraper ended Failed and         *)
(*              returned []                                                *)
(* Inputs and results of the functions applied on their own:               *)
(*   input, output   (in a crawl, input holds the JSON body last parsed)   *)
(* The drivers (scrape_all_diverse_sites, the full-scraping loop of main): *)
(*   si, ci          position of the two for loops (site, category)        *)
(*   selected        the site checkboxes (all ticked for the CLI class)    *)
(*   target_products, total_products, all_products                         *)
(*   stop_scraping   st.session_state.stop_scraping                        *)
(*   stopRequested   history: a stop was requested at some point           *)
(*   crawls          history: one record per scrape_site_category call     *)
(*                   that ended, [site, category, how, ret]                *)
(* Two scrape_site_category calls running at once on one scraper:          *)
(*   frames          the locals of each call                               *)
(*   own             history: what the pages served to each call gave      *)
(*   rets            what each call returned                               *)
(* The Streamlit session across button actions:                            *)
(*   mode            the action running: "full", "site" or "category"      *)
(*   before          history: scraped_products when the action started     *)
(*   stored_logs     the entries of scraping_logs written before the       *)
(*                   action started that are still in the buffer           *)
(* ModelContextProtocol (run_mcp.py):                                      *)
(*   permissions     the permissions document                              *)
(*   audit_file      the records written to mcp_audit.log                  *)
(*   audit_db        the rows of the audit_log table                       *)
(*   replies         history: each request with the result returned for it *)
(***************************************************************************)
VARIABLES cls, site, max_pages, retries, pc, current_url, page_count, products,
          attempt, response, gets, waits, ret, ended, fetched, delayed, pageLists,
          failedEmpty, input, output,
          si, ci, selected, target_products, total_products, all_products,
          stop_scraping, stopRequested, crawls,
          frames, own, rets,
          mode, before, stored_logs,
          permissions, audit_file, audit_db, replies

args == <<cls, site, max_pages, retries>>
locals == <<current_url, page_count, products>>
call == <<attempt, response, gets, waits>>
history == <<ended, fetched, delayed, pageLists, failedEmpty>>
io == <<input, output>>
driver == <<si, ci, selected, target_products, total_products, all_products,
            stop_scraping, stopRequested, crawls>>
pair == <<frames, own, rets>>
session == <<mode, before, stored_logs>>
mcp == <<permissions, audit_file, audit_db, replies>>
aux == <<pair, session, mcp>>
vars == <<args, pc, locals, call, ret, history, io, driver, aux>>

StartUrl == 1     \* url = base_url + category_path

\* the completion status of the walker's state machine
Status == IF ended = "fetch_error" THEN "Failed" ELSE "Done"

RECURSIVE Concat(_)
Concat(lists) == IF lists = <<>> THEN <<>> ELSE Head(lists) \o Concat(Tail(lists))

\* no _make_request frame
NoCall == attempt = 0 /\ response = "None" /\ gets = 0 /\ waits = <<>>

\* the locals at the start of scrape_site_category
Entry ==
    /\ current_url = StartUrl
    /\ page_count = 0
    /\ products = <<>>
    /\ NoCall
    /\ ret = <<>>
    /\ ended = "none"
    /\ fetched = <<>>
    /\ delayed = FALSE
    /\ pageLists = <<>>

\* no driver is running: scrape_site_category is called on its own
NoDriver ==
    /\ si = 0
    /\ ci = 0
    /\ selected = <<>>
    /\ target_products = 0
    /\ total_products = 0
    /\ all_products = <<>>
    /\ stop_scraping = FALSE
    /\ stopRequested = FALSE
    /\ crawls = <<>>

\* no second scrape_site_category call is running
NoPair ==
    /\ frames = <<>>
    /\ own = <<>>
    /\ rets = <<>>

\* no Streamlit button action is running
NoSession ==
    /\ mode = "none"
    /\ before = <<>>
    /\ stored_logs = <<>>

\* no ModelContextProtocol object exists
NoMcp ==
    /\ permissions = None
    /\ audit_file = <<>>
    /\ audit_db = <<>>
    /\ replies = <<>>

\* nothing else is running
NoAux == NoPair /\ NoSession /\ NoMcp

Init ==
    /\ cls \in {"cli", "streamlit"}
    /\ site \in SitesOf(cls)
    /\ max_pages \in 1..MaxPagesCap
    /\ retries = DefaultRetries
    /\ failedEmpty = FALSE
    /\ pc = "loop"
    /\ Entry
    /\ input = None
    /\ output = None
    /\ NoDriver
    /\ NoAux

(***************************************************************************)
(* _make_request(url, retries)                                             *)
(***************************************************************************)
\* what requests.get / raise_for_status can raise: a timeout, a refused
\* connection, a non-2xx status
Failures == {"Timeout", "ConnectionError", "HTTPError"}
\* except requests.RequestException: all three are subclasses of it
Caught(failure) == failure \in {"Timeout", "ConnectionError", "HTTPError"}

\* a loop that runs once too often
HasAttemptOnceMore(a, r) == a <= r
\* for attempt in range(retries)
HasAttempt(a, r) == a < r
\* a handler that also sleeps after the last attempt
SleepsAfterAlways(a, r) == TRUE
\* if attempt < retries - 1: time.sleep(2 ** attempt)
SleepsAfter(a, r) == a < r - 1

\* requests.get succeeds: return response
GetOk ==
    /\ pc = "request"
    /\ UNCHANGED <<driver, aux>>
    /\ HasAttempt(attempt, retries)
    /\ gets' = gets + 1
    /\ delayed' = FALSE
    /\ response' = "Response"
    /\ pc' = "fetched"
    /\ UNCHANGED <<args, locals, attempt, waits, ret, ended, fetched, pageLists, failedEmpty, io>>

\* requests.get or raise_for_status raises: the handler logs, sleeps unless
\* this was the last attempt, and the loop goes on
GetFail ==
    /\ pc = "request"
    /\ UNCHANGED <<driver, aux>>
    /\ HasAttempt(attempt, retries)
    /\ gets' = gets + 1
    /\ delayed' = FALSE
    /\ \E failure \in Failures :
         IF Caught(failure)
         THEN /\ waits' = IF SleepsAfter(attempt, retries)
                          THEN Append(waits, Pow(2, attempt)) ELSE waits
              /\ attempt' = attempt + 1
              /\ pc' = "request"
         ELSE /\ pc' = "raised"
              /\ UNCHANGED <<attempt, waits>>
    /\ UNCHANGED <<args, locals, response, ret, ended, fetched, pageLists, failedEmpty, io>>

\* the for loop is exhausted: return None
GiveUp ==
    /\ pc = "request"
    /\ UNCHANGED <<driver, aux>>
    /\ ~HasAttempt(attempt, retries)
    /\ response' = "None"
    /\ pc' = "fetched"
    /\ UNCHANGED <<args, locals, attempt, gets, waits, ret, history, io>>

(***************************************************************************)
(* scrape_site_category                                                    *)
(***************************************************************************)
\* a cap that lets one more page through
LoopConditionInclusive(count, cap) == count <= cap
\* while current_url and page_count < max_pages
LoopCondition(count, cap) == count < cap

\* the loop test; on entry page_count += 1 and _make_request(current_url)
Loop ==
    /\ pc = "loop"
    /\ UNCHANGED <<driver, aux>>
    /\ IF LoopCondition(page_count, max_pages)
       THEN /\ page_count' = page_count + 1
            /\ fetched' = Append(fetched, current_url)
            /\ pc' = "request"
            /\ UNCHANGED ended
       ELSE /\ ended' = "cap"
            /\ pc' = "return"
            /\ UNCHANGED <<page_count, fetched>>
    /\ UNCHANGED <<args, current_url, products, call, ret, delayed, pageLists, failedEmpty, io>>

\* the caller has read the result of _make_request: its frame is gone
CallRead == attempt' = 0 /\ response' = "None" /\ gets' = 0 /\ waits' = <<>>

\* a failure path that starts the result over
FetchFailedDiscards ==
    /\ pc = "fetched"
    /\ UNCHANGED <<driver, aux>>
    /\ response = "None"
    /\ ended' = "fetch_error"
    /\ pc' = "return"
    /\ products' = <<>>
    /\ CallRead
    /\ UNCHANGED <<args, current_url, page_count, ret, fetched, delayed, pageLists,
                   failedEmpty, io>>

\* if not response: break
FetchFailed ==
    /\ pc = "fetched"
    /\ UNCHANGED <<driver, aux>>
    /\ response = "None"
    /\ ended' = "fetch_error"
    /\ pc' = "return"
    /\ CallRead
    /\ UNCHANGED <<args, locals, ret, fetched, delayed, pageLists, failedEmpty, io>>

\* the JSON branch: both its ends break
ProcessJson ==
    /\ pc = "fetched"
    /\ UNCHANGED <<driver, aux>>
    /\ response # "None"
    /\ IsJsonSite(cls, site.name)
    /\ \E body \in JsonBodies :
         \E r \in JsonBranch(cls, body, site.category, current_url) :
            /\ products' = products \o r.appended
            /\ pageLists' = Append(pageLists, r.appended)
            /\ ended' = IF r.raised THEN "json_error" ELSE "json"
            /\ input' = [kind |-> "json", cls |-> cls, body |-> body, url |-> current_url]
    /\ pc' = "return"
    /\ CallRead
    /\ UNCHANGED <<args, current_url, page_count, ret, fetched, delayed, failedEmpty, output>>

\* a test that lets a link to the page itself through
StopsPagingNoSelfCheck(next_url, url) == IsNone(next_url)
\* if next_url == current_url or not next_url: break
StopsPaging(next_url, url) == IsNone(next_url) \/ next_url.url = url

\* a test that never finds the page empty
NoProductsNever(product_elements) == FALSE
\* if not product_elements: ... break
NoProducts(product_elements) == product_elements = <<>>

\* the pages a markup site serves during a driver run
DriverPages ==
    [elems : { <<>>, <<ElemA>> }, links : {<<>>} \cup { <<NextLink(ref)>> : ref \in Urls }]
Served == IF si = 0 THEN Pages ELSE DriverPages

\* the markup branch: container selection, the extraction loop, pagination
ProcessMarkup ==
    /\ pc = "fetched"
    /\ UNCHANGED <<driver, aux>>
    /\ response # "None"
    /\ ~IsJsonSite(cls, site.name)
    /\ \E page \in Served :
         /\ LET sel == SelectContainers(page)
                next_url == get_next_page_url(page.links, current_url)
            IN  IF NoProducts(sel.elements)
                THEN /\ ended' = "empty_page"
                     /\ pc' = "return"
                     /\ UNCHANGED <<current_url, products, pageLists>>
                ELSE /\ \E new \in ExtractAll(cls, sel.elements, site.name \o site.category,
                                              current_url, site.selectors) :
                          /\ products' = products \o new
                          /\ pageLists' = Append(pageLists, new)
                     /\ IF StopsPaging(next_url, current_url)
                        THEN /\ ended' = IF IsNone(next_url) THEN "no_next" ELSE "self_link"
                             /\ pc' = "return"
                             /\ UNCHANGED current_url
                        ELSE /\ current_url' = next_url.url
                             /\ pc' = "delay"
                             /\ UNCHANGED ended
         /\ input' = [kind |-> "page", page |-> page, url |-> current_url]
    /\ CallRead
    /\ UNCHANGED <<args, page_count, ret, fetched, delayed, failedEmpty, output>>

\* a pause that never ends
RandomDelayStuck ==
    /\ pc = "delay"
    /\ delayed' = TRUE
    /\ UNCHANGED <<args, pc, locals, call, ret, ended, fetched, pageLists, failedEmpty, io,
                   driver, aux>>

\* self._random_delay(1, 3): the politeness pause at the end of the loop body
RandomDelay ==
    /\ pc = "delay"
    /\ UNCHANGED <<driver, aux>>
    /\ delayed' = TRUE
    /\ pc' = "loop"
    /\ UNCHANGED <<args, locals, call, ret, ended, fetched, pageLists, failedEmpty, io>>

\* return products
Return ==
    /\ pc = "return"
    /\ UNCHANGED <<driver, aux>>
    /\ ret' = products
    /\ failedEmpty' = (failedEmpty \/ (products = <<>> /\ Status = "Failed"))
    /\ pc' = "done"
    /\ UNCHANGED <<args, locals, call, ended, fetched, delayed, pageLists, io>>

\* the driver calls scrape_site_category again, for another category
NextCall ==
    /\ pc = "done"
    /\ UNCHANGED <<driver, aux>>
    /\ site' \in SitesOf(cls)
    /\ max_pages' \in 1..MaxPagesCap
    /\ pc' = "loop"
    /\ current_url' = StartUrl
    /\ page_count' = 0
    /\ products' = <<>>
    /\ ret' = <<>>
    /\ ended' = "none"
    /\ fetched' = <<>>
    /\ delayed' = FALSE
    /\ pageLists' = <<>>
    /\ input' = None
    /\ UNCHANGED <<cls, retries, call, failedEmpty, output>>

Next ==
    \/ Loop
    \/ GetOk
    \/ GetFail
    \/ GiveUp
    \/ FetchFailed
    \/ ProcessJson
    \/ ProcessMarkup
    \/ RandomDelay
    \/ Return
    \/ NextCall

Spec == Init /\ [][Next]_vars

\* The program runs on: every call (requests.get with its timeout, time.sleep)
\* returns, so a step that is possible is eventually taken.
SpecLive == Init /\ [][Next]_vars /\ WF_vars(Next)

(***************************************************************************)
(* _make_request called on its own, with any retry count.                  *)
(***************************************************************************)
InitFetch ==
    /\ cls \in {"cli", "streamlit"}
    /\ site = SiteBooks
    /\ max_pages = 1
    /\ retries \in 0..MaxRetries
    /\ failedEmpty = FALSE
    /\ pc = "request"
    /\ current_url \in Urls
    /\ page_count = 0
    /\ products = <<>>
    /\ NoCall
    /\ ret = <<>>
    /\ ended = "none"
    /\ fetched = <<>>
    /\ delayed = FALSE
    /\ pageLists = <<>>
    /\ input = None
    /\ output = None
    /\ NoDriver
    /\ NoAux

NextFetch ==
    \/ GetOk
    \/ GetFail
    \/ GiveUp

SpecFetch == InitFetch /\ [][NextFetch]_vars

(***************************************************************************)
(* The extraction functions applied on their own, on inputs drawn from     *)
(* bounded sets.                                                           *)
(***************************************************************************)
TxtPriced ==
    <<"P", "r", "i", "c", "e", ":", " ", "1", ",", "2", "3", "4", ".", "5", "0">>
TxtNoDigit == <<"N", "/", "A">>
TxtRated == <<"4", ".", "5">>
TxtC == <<" ", "C", ";", " ", " ", "D", " ">>
TxtRupture == <<"R", "u", "p", "t", "u", "r", "e">>

ElemTitles == {None, Tag([text |-> TxtA, attr |-> None]), Tag([text |-> TxtBlank, attr |-> Str(TxtB)])}
ElemTexts == {TxtBlank, TxtC}
ElemPrices == {None, Tag([text |-> TxtPriced]), Tag([text |-> TxtNoDigit])}
ElemAvails ==
    {None, Tag([text |-> TxtInStock]), Tag([text |-> TxtOutOfStock]), Tag([text |-> TxtRupture])}
ElemRatings ==
    { None,
      Tag([class |-> <<"star-rating", "Three">>, text |-> <<>>]),
      Tag([class |-> <<"star-rating">>, text |-> <<>>]),
      Tag([class |-> <<"ratings">>, text |-> TxtReviews]),
      Tag([class |-> <<"ratings", "Three">>, text |-> <<>>]),
      Tag([class |-> <<"rating">>, text |-> TxtRated]) }
ElemLinks == {None, Tag([href |-> None]), Tag([href |-> Href(0)]), Tag([href |-> Href(NUrls)])}

ExtractElems ==
    [sels : {{ContainerSelector}}, text : ElemTexts, title : ElemTitles, price : ElemPrices,
     avail : ElemAvails, rating : ElemRatings, link : ElemLinks, t : {"Tag"}]

\* elements told apart by the selectors they match
SelSets ==
    { {}, {ContainerSelector}, {"article"}, {".item", "li"}, {".product-item"}, {"li"},
      {".product-grid"} }
SelectElems == { Elem(sels, ContentA) : sels \in SelSets }
SelectPages == [elems : SeqsUpTo(SelectElems, MaxElems), links : {<<>>}]

ItemNamed == JDict([name |-> JStr(TxtB), id |-> JNum(Dec(2, 0)), price |-> JNum(Dec(999, 2))])
ItemEmptyTitle ==
    JDict([title |-> JStr(<<>>), id |-> JNum(Dec(5, 0)), price |-> JNum(Dec(999, 2)),
           rating |-> Rate(Dec(39, 1))])
\* an object without 'price' and 'rating', and one whose 'rating' is a number
ItemNoPrice == JDict([title |-> JStr(TxtA)])
ItemPlainRating ==
    JDict([title |-> JStr(TxtA), price |-> JNum(Dec(999, 2)), rating |-> JNum(Dec(45, 1))])
ListItems == {ItemTitled, ItemEmptyTitle, ItemNullTitle}
ListBodies ==
    { JList(items) : items \in SeqsUpTo(ListItems, MaxElems) }
      \cup { JDict([products |-> JList(items)]) : items \in SeqsUpTo({ItemTitled}, MaxElems) }
      \cup {[t |-> "invalid"], ItemNamed, ItemNoTitle, ItemNoPrice, ItemPlainRating, JNull}

LinkTexts == {TxtNext, <<"2">>, <<" ", ">", " ">>}
LinkSet == [href : {None} \cup {Href(r) : r \in Hrefs}, text : LinkTexts, rel : BOOLEAN]
LinkLists == SeqsUpTo(LinkSet, 1) \cup { <<a, NextLink(1)>> : a \in LinkSet }

Inputs ==
    [kind : {"element"}, cls : {"cli", "streamlit"}, elem : ExtractElems, url : Urls,
     selectors : {CssSelectors, NoneSelectors}]
      \cup [kind : {"page"}, page : SelectPages]
      \cup [kind : {"json"}, cls : {"cli", "streamlit"}, body : ListBodies, url : Urls]
      \cup [kind : {"links"}, links : LinkLists, url : Urls]

InitExtract ==
    /\ cls = "cli"
    /\ site = SiteBooks
    /\ max_pages = 1
    /\ retries = DefaultRetries
    /\ failedEmpty = FALSE
    /\ pc = "input"
    /\ Entry
    /\ input \in Inputs
    /\ output = None
    /\ NoDriver
    /\ NoAux

Applied(result) ==
    /\ output' = result
    /\ UNCHANGED <<driver, aux>>
    /\ pc' = "output"
    /\ UNCHANGED <<args, locals, call, ret, history, input>>

\* _extract_product_data on one container element
ApplyExtract ==
    /\ pc = "input"
    /\ input.kind = "element"
    /\ \E o \in extract_product_data(input.cls, input.elem, SiteBooks.name \o SiteBooks.category,
                                     input.url, input.selectors) : Applied(o)

\* the container selection on one page
ApplySelect ==
    /\ pc = "input"
    /\ input.kind = "page"
    /\ Applied(SelectContainers(input.page))

\* the JSON branch on one response body
ApplyJson ==
    /\ pc = "input"
    /\ input.kind = "json"
    /\ \E r \in JsonBranch(input.cls, input.body, SiteDummy.category, input.url) : Applied(r)

\* _get_next_page_url on the pagination candidates of one page
ApplyNextPage ==
    /\ pc = "input"
    /\ input.kind = "links"
    /\ Applied(get_next_page_url(input.links, input.url))

NextExtract ==
    \/ ApplyExtract
    \/ ApplySelect
    \/ ApplyJson
    \/ ApplyNextPage

SpecExtract == InitExtract /\ [][NextExtract]_vars

(***************************************************************************)
(* The drivers: DiverseScraper.scrape_all_diverse_sites and the full-      *)
(* scraping loop of main() in app_streamlit_scraping.py.  Both walk the    *)
(* sites and their categories in dictionary order and call                 *)
(* scrape_site_category for each; the steps of that call are the walker's  *)
(* actions above.  The CLI driver passes max_pages=10 and the Streamlit    *)
(* one the value of its slider: here max_pages is any of 1..MaxPagesCap.   *)
(***************************************************************************)
DriverSites(c) ==
    IF c = "cli"
    THEN << [name |-> <<"books", "demo">>, categories |-> << <<"travel">>, <<"mystery">> >>,
             selectors |-> CssSelectors],
            [name |-> <<"jsonplaceholder">>, categories |-> << <<"posts">> >>,
             selectors |-> CssSelectors] >>
    ELSE << [name |-> <<"books", "demo">>, categories |-> << <<"travel">>, <<"mystery">> >>,
             selectors |-> CssSelectors],
            [name |-> <<"dummy", "products">>, categories |-> << <<"smartphones">> >>,
             selectors |-> CssSelectors] >>

\* the arguments of the scrape_site_category call for category j of site i
Unit(c, i, j) ==
    [name |-> DriverSites(c)[i].name, category |-> DriverSites(c)[i].categories[j],
     selectors |-> DriverSites(c)[i].selectors]

\* what BeautifulSoup(response.content, 'html.parser') can raise
ParseErrors == {"ParserRejectedMarkup", "RecursionError"}
\* a handler for request errors only
DriverCatchesRequestErrors(e) == e \in {"Timeout", "ConnectionError", "HTTPError"}
\* except Exception as e
DriverCatches(e) == e \in {"Timeout", "ConnectionError", "HTTPError", "ParserRejectedMarkup", "RecursionError"}

\* an aggregation that skips the products it already holds
RECURSIVE ExtendUnique(_, _)
ExtendUnique(list, new) ==
    IF new = <<>> THEN list
    ELSE ExtendUnique(IF InSeq(Head(new), list) THEN list ELSE Append(list, Head(new)),
                      Tail(new))
\* all_products.extend(category_products)
Extend(list, new) == list \o new

InitDriver ==
    /\ cls \in {"cli", "streamlit"}
    /\ site = Unit(cls, 1, 1)
    /\ max_pages \in 1..MaxPagesCap
    /\ retries = DefaultRetries
    /\ failedEmpty = FALSE
    /\ pc = "site_loop"
    /\ Entry
    /\ input = None
    /\ output = None
    /\ si = 1
    /\ ci = 0
    /\ selected \in IF cls = "cli" THEN {<<TRUE, TRUE>>}
                    ELSE [1..2 -> BOOLEAN] \ {<<FALSE, FALSE>>}
    /\ target_products \in {1, MaxTarget}
    /\ total_products = 0
    /\ all_products = <<>>
    /\ stop_scraping \in IF cls = "cli" THEN {FALSE} ELSE BOOLEAN
    /\ stopRequested = stop_scraping
    /\ crawls = <<>>
    /\ NoAux

\* a cutoff that lets a total equal to the target through
TargetReachedStrict(total, target) == total > target
\* if total_products >= target_products
TargetReached(total, target) == total >= target

\* for site_name, site_config in self.diverse_sites.items(): /
\* for site_key, selected in selected_sites.items():
SiteLoop ==
    /\ pc = "site_loop"
    /\ UNCHANGED aux
    /\ IF si > Len(DriverSites(cls))
       THEN /\ pc' = "finished"
            /\ UNCHANGED <<si, ci, stop_scraping>>
       ELSE IF cls = "cli"
       THEN IF TargetReached(total_products, target_products)
            THEN /\ pc' = "finished"
                 /\ UNCHANGED <<si, ci, stop_scraping>>
            ELSE /\ pc' = "cat_loop"
                 /\ ci' = 1
                 /\ UNCHANGED <<si, stop_scraping>>
       ELSE IF ~selected[si] \/ TargetReached(total_products, target_products)
            THEN /\ si' = si + 1
                 /\ UNCHANGED <<pc, ci, stop_scraping>>
            ELSE IF stop_scraping
            THEN /\ stop_scraping' = FALSE
                 /\ pc' = "finished"
                 /\ UNCHANGED <<si, ci>>
            ELSE /\ pc' = "cat_loop"
                 /\ ci' = 1
                 /\ UNCHANGED <<si, stop_scraping>>
    /\ UNCHANGED <<args, locals, call, ret, history, io, selected, target_products,
                   total_products, all_products, stopRequested, crawls>>

\* for category_name, category_path in site_config['categories'].items():
\* the two tests at the head of the body, then the call of scrape_site_category
CatLoop ==
    /\ pc = "cat_loop"
    /\ UNCHANGED aux
    /\ IF \/ ci > Len(DriverSites(cls)[si].categories)
          \/ TargetReached(total_products, target_products)
          \/ (cls = "streamlit" /\ stop_scraping)
       THEN /\ si' = si + 1
            /\ pc' = "site_loop"
            /\ UNCHANGED <<site, locals, ret, ended, fetched, delayed, pageLists, input, ci>>
       ELSE /\ site' = Unit(cls, si, ci)
            /\ pc' = "loop"
            /\ current_url' = StartUrl
            /\ page_count' = 0
            /\ products' = <<>>
            /\ ret' = <<>>
            /\ ended' = "none"
            /\ fetched' = <<>>
            /\ delayed' = FALSE
            /\ pageLists' = <<>>
            /\ input' = None
            /\ UNCHANGED <<si, ci>>
    /\ UNCHANGED <<cls, max_pages, retries, call, failedEmpty, output, selected,
                   target_products, total_products, all_products, stop_scraping,
                   stopRequested, crawls>>

\* scrape_site_category has returned: if category_products: extend, count;
\* the CLI driver then pauses (_random_delay(2, 4))
Collect ==
    /\ pc = "done"
    /\ UNCHANGED aux
    /\ all_products' = IF ret # <<>> THEN Extend(all_products, ret) ELSE all_products
    /\ total_products' = total_products + Len(ret)
    /\ crawls' = Append(crawls, [site |-> site.name, category |-> site.category,
                                 how |-> ended, ret |-> ret])
    /\ delayed' = IF cls = "cli" THEN TRUE ELSE delayed
    /\ ci' = ci + 1
    /\ pc' = "cat_loop"
    /\ UNCHANGED <<args, locals, call, ret, ended, fetched, pageLists, failedEmpty, io, si,
                   selected, target_products, stop_scraping, stopRequested>>

\* the parser rejects the body of a markup page: the exception leaves
\* scrape_site_category and reaches the driver's handler, which logs it and
\* goes on with the next category
ParseRaises ==
    /\ pc = "fetched"
    /\ UNCHANGED aux
    /\ response # "None"
    /\ ~IsJsonSite(cls, site.name)
    /\ \E e \in ParseErrors :
         IF DriverCatches(e)
         THEN /\ crawls' = Append(crawls, [site |-> site.name, category |-> site.category,
                                           how |-> "raised", ret |-> <<>>])
              /\ ci' = ci + 1
              /\ pc' = "cat_loop"
         ELSE /\ pc' = "aborted"
              /\ UNCHANGED <<ci, crawls>>
    /\ CallRead
    /\ UNCHANGED <<args, locals, ret, history, io, si, selected, target_products,
                   total_products, all_products, stop_scraping, stopRequested>>

\* the "Arreter Scraping" button: st.session_state.stop_scraping = True
RequestStop ==
    /\ cls = "streamlit"
    /\ UNCHANGED aux
    /\ pc \notin {"finished", "aborted"}
    /\ ~stop_scraping
    /\ stop_scraping' = TRUE
    /\ stopRequested' = TRUE
    /\ UNCHANGED <<args, pc, locals, call, ret, history, io, si, ci, selected,
                   target_products, total_products, all_products, crawls>>

NextDriver ==
    \/ SiteLoop
    \/ CatLoop
    \/ Loop
    \/ GetOk
    \/ GetFail
    \/ GiveUp
    \/ FetchFailed
    \/ ProcessJson
    \/ ProcessMarkup
    \/ ParseRaises
    \/ RandomDelay
    \/ Return
    \/ Collect
    \/ RequestStop

SpecDriver == InitDriver /\ [][NextDriver]_vars

(***************************************************************************)
(* Properties.                                                             *)
(***************************************************************************)
Zero == Dec(0, 0)
Five == Dec(5, 0)

\* C1 (Spec): a category crawl never passes more than max_pages URLs to
\* _make_request, one per counted page.  With max_pages = 1 and a first page
\* whose next link leads to another URL (the loop then ends on its cap), only
\* the start URL was fetched, the result is what page 1 gave, and the crawl
\* ended Done.
C1_PageCap ==
    /\ Len(fetched) <= max_pages
    /\ page_count = Len(fetched)
    /\ (pc = "done" /\ max_pages = 1 /\ ended = "cap") =>
          /\ fetched = <<StartUrl>>
          /\ current_url # StartUrl
          /\ ret = pageLists[1]
          /\ Status = "Done"

C1_Witness == pc = "done" /\ max_pages = 1 /\ ended = "cap" /\ ret # <<>>

\* C2 (Spec): within one category crawl no URL is passed to _make_request
\* twice.
C2_NoRefetch ==
    \A i, j \in 1..Len(fetched) : i # j => fetched[i] # fetched[j]

\* C3 (Spec): every product appended to a category's result has a non-empty
\* title, price >= 0, 0 <= rating <= 5 and availability Disponible or
\* Rupture.
ValidProduct(p) ==
    /\ p.titre # <<>>
    /\ DecLE(Zero, p.prix)
    /\ DecLE(Zero, p.note_moyenne)
    /\ DecLE(p.note_moyenne, Five)
    /\ p.disponibilite \in {"Disponible", "Rupture"}

C3_NonNull == \A i \in 1..Len(products) : ValidProduct(products[i])

\* C4 (SpecFetch): _make_request(url, retries) issues at most `retries` GETs;
\* it returns as soon as a GET succeeds, after only failed ones; it returns
\* None exactly when `retries` attempts have failed; no failure escapes as an
\* exception.
C4_BoundedRetries ==
    /\ gets <= retries
    /\ pc # "raised"
    /\ pc = "fetched" =>
          /\ (response = "None") <=> (attempt = retries)
          /\ response = "None" => gets = retries
          /\ response = "Response" => (gets = attempt + 1 /\ attempt < retries)

C4_Witness == pc = "fetched" /\ retries = DefaultRetries /\ response = "None" /\ gets = 3

\* C5 (Spec): when the fetch of page k of a markup category fails, the crawl
\* ends there: no later URL is fetched, and the products kept and returned
\* are exactly what pages 1..k-1 appended, in order.
C5_FailureKeepsPartial ==
    (ended = "fetch_error" /\ ~(site \in {SiteJsonPlaceholder, SiteDummy})) =>
        /\ pc \in {"return", "done"}
        /\ Len(fetched) = page_count
        /\ Len(pageLists) = page_count - 1
        /\ products = Concat(pageLists)
        /\ pc = "done" => ret = Concat(pageLists)

C5_Witness == ended = "fetch_error" /\ pc = "done" /\ page_count = 2 /\ ret # <<>>

\* C6 (Spec): what a category crawl returns tells a crawl that ended Failed
\* from one that ended Done: no crawl that ended Done returns the value ([]) a
\* crawl that ended Failed returned.
C6_StatusDistinguishable ==
    ~(pc = "done" /\ Status = "Done" /\ ret = <<>> /\ failedEmpty)

\* C7 (Spec): for a JSON site, whatever max_pages is, a category crawl calls
\* _make_request exactly once and never reaches pagination, whether the body
\* parses or not.
JsonKind(s) == s \in {SiteJsonPlaceholder, SiteDummy}

C7_JsonSingleFetch ==
    JsonKind(site) =>
        /\ Len(fetched) <= 1
        /\ pc \in {"return", "done"} => Len(fetched) = 1
        /\ pc # "delay"
        /\ current_url = StartUrl
        /\ ended \in {"none", "fetch_error", "json", "json_error"}

C7_Witness ==
    JsonKind(site) /\ pc = "done" /\ max_pages = MaxPagesCap /\ ended = "json_error"

\* C8 (Spec): between any two consecutive requests.get calls of one category
\* crawl, a retry included, _random_delay has run.
C8_DelayBeforeEveryGet ==
    [][(gets' = gets + 1 /\ (gets >= 1 \/ Len(fetched) > 1)) => delayed]_vars

\* C9 (SpecExtract): for a JSON root that is a list (every item of which is
\* mapped without an exception), the number of products emitted is the number
\* of items whose title, resolved through the title / name keys, is not
\* empty.
ResolvedTitle(item) ==
    IF item.t # "dict" THEN <<>>
    ELSE LET v == Get(item.d, "title", Get(item.d, "name", JStr(<<>>)))
         IN  IF v.t = "str" THEN clean_text(v.s) ELSE <<>>

C9_JsonCardinality ==
    (pc = "output" /\ input.kind = "json" /\ input.body.t = "list" /\ ~output.raised) =>
        Len(output.appended) =
            Cardinality({ i \in 1..Len(input.body.items) :
                            ResolvedTitle(input.body.items[i]) # <<>> })

\* C10 (SpecExtract): when the configured container selector matches nothing,
\* the elements used are the matches of the first fallback selector, in the
\* fixed order, that matches anything, and no later selector is consulted.
C10_FallbackOrder ==
    (pc = "output" /\ input.kind = "page" /\ Select(input.page, ContainerSelector) = <<>>) =>
        \A k \in 1..Len(AltSelectors) :
            ( /\ Select(input.page, AltSelectors[k]) # <<>>
              /\ \A j \in 1..(k - 1) : Select(input.page, AltSelectors[j]) = <<>> ) =>
                /\ output.elements = Select(input.page, AltSelectors[k])
                /\ output.consulted = <<ContainerSelector>> \o SubSeq(AltSelectors, 1, k)

C10_Witness ==
    /\ pc = "output"
    /\ input.kind = "page"
    /\ Select(input.page, "article") = <<>>
    /\ Len(Select(input.page, ".item")) = 1
    /\ Len(Select(input.page, "li")) = 2
    /\ output.elements = Select(input.page, ".item")
    /\ ~InSeq("li", output.consulted)

\* C11 (SpecDriver): a category crawl that failed (fetch failure, malformed
\* response, exception out of scrape_site_category) never ends the driver:
\* when the driver has finished, the categories crawled are a prefix of the
\* selected ones, in order, and one is missing only if the product target was
\* reached or a stop was requested.
SiteUnits(c, i) ==
    [j \in 1..Len(DriverSites(c)[i].categories) |->
        <<DriverSites(c)[i].name, DriverSites(c)[i].categories[j]>>]

RECURSIVE SelectedUnits(_, _, _)
SelectedUnits(c, sel, i) ==
    IF i > Len(DriverSites(c)) THEN <<>>
    ELSE (IF sel[i] THEN SiteUnits(c, i) ELSE <<>>) \o SelectedUnits(c, sel, i + 1)

Attempted == [k \in 1..Len(crawls) |-> <<crawls[k].site, crawls[k].category>>]

C11_ErrorIsolation ==
    /\ pc # "aborted"
    /\ pc = "finished" =>
          LET units == SelectedUnits(cls, selected, 1)
          IN  /\ Len(Attempted) <= Len(units)
              /\ Attempted = SubSeq(units, 1, Len(Attempted))
              /\ Attempted # units => (total_products >= target_products \/ stopRequested)

C11_Witness ==
    /\ pc = "finished"
    /\ ~stopRequested
    /\ Len(crawls) = 3
    /\ crawls[1].how = "raised"
    /\ crawls[2].how = "fetch_error"
    /\ crawls[3].how = "json_error"

\* C12 (SpecDriver): the aggregated collection is the concatenation, in crawl
\* order, of the lists the category crawls returned, products unchanged, and
\* the running total is its length.
C12_PureConcatenation ==
    /\ all_products = Concat([k \in 1..Len(crawls) |-> crawls[k].ret])
    /\ total_products = Len(all_products)

C12_Witness ==
    /\ pc = "finished"
    /\ Len(crawls) = 3
    /\ crawls[1].ret # <<>>
    /\ crawls[2].ret = crawls[1].ret
    /\ crawls[3].ret # <<>>

\* C13 (SpecDriver): every product a category crawl handed to the aggregated
\* collection carries a source label that names both the site key and the
\* category id of that crawl.
C13_ProvenanceLabel ==
    \A k \in 1..Len(crawls) :
        \A i \in 1..Len(crawls[k].ret) :
            LET p == crawls[k].ret[i]
            IN  /\ p.source # None
                /\ Contains(p.source.s, crawls[k].site)
                /\ Contains(p.source.s, crawls[k].category)

\* C14 (SpecDriver): once stop_scraping is set during a category crawl, the
\* walker fetches no further page of that category: at the page boundary after
\* a processed page the loop is left.
C14_StopAtPageBoundary ==
    [][(stop_scraping /\ pc = "loop" /\ page_count >= 1) => fetched' = fetched]_vars

\* C15 (SpecLive): every call of scrape_site_category returns, whatever the
\* pagination links of the site are.
C15_WalkerTerminates == (pc = "loop") ~> (pc = "done")

C15_Witness ==
    /\ pc = "done"
    /\ ended = "cap"
    /\ \E i, j \in 1..Len(fetched) : i # j /\ fetched[i] = fetched[j]

\* C16 (SpecExtract): a rating element that carries the class token Three
\* gives the rating 3; when no rating element matches, the rating is one of
\* 3, 3.5, 4, 4.5, 5.
C16_RatingClassMapping ==
    (pc = "output" /\ input.kind = "element" /\ output.ok) =>
        LET rating_elem == input.elem.rating
        IN  /\ (~IsNone(rating_elem) /\ InSeq("Three", rating_elem.class)) =>
                  output.p.note_moyenne = Dec(3, 0)
            /\ IsNone(rating_elem) => output.p.note_moyenne \in RatingDefaults

\* C17 (SpecExtract): availability is Disponible when no availability element
\* matches; with a matched element it is Rupture exactly when the text,
\* lower-cased, contains 'out' or 'rupture', and Disponible otherwise (texts
\* shorter than the 300 characters _clean_text keeps).
HasOutToken(text) ==
    \E i \in 1..Len(text) :
        \/ /\ i + 2 <= Len(text)
           /\ <<LowerChar(text[i]), LowerChar(text[i + 1]), LowerChar(text[i + 2])>>
                 = <<"o", "u", "t">>
        \/ /\ i + 6 <= Len(text)
           /\ [k \in 1..7 |-> LowerChar(text[i + k - 1])]
                 = <<"r", "u", "p", "t", "u", "r", "e">>

NoDigit(text) == \A i \in 1..Len(text) : text[i] \notin Digits

C18_PriceExtraction ==
    (pc = "output" /\ input.kind = "element" /\ input.selectors = CssSelectors) =>
        /\ output.ok
        /\ LET price_element == input.elem.price
               prix == output.p.prix
           IN  /\ prix # None
               /\ DOMAIN prix = {"m", "e"}
               /\ IsNone(price_element) => prix \in PriceDefaults
               /\ (~IsNone(price_element) /\ NoDigit(price_element.text)) =>
                      prix \in PriceDefaults
               /\ (~IsNone(price_element) /\ price_element.text = TxtPriced) =>
                      prix = Dec(123450, 2)

C18_Witness ==
    /\ pc = "output"
    /\ input.kind = "element"
    /\ output.ok
    /\ ~IsNone(input.elem.price)
    /\ input.elem.price.text = TxtPriced
    /\ output.p.prix = Dec(12345, 1)

\* C19 (Spec): on a markup page, an element whose extraction raises or gives
\* an empty title adds nothing and the elements after it are still processed:
\* what the page appended is, in document order, one product for each element
\* that extracted with a non-empty title; and the next link is then evaluated
\* as on any page.
InputKind == IF "kind" \in DOMAIN input THEN input.kind ELSE "none"

RECURSIVE Explains(_, _, _)
Explains(new, elements, ctx) ==
    IF elements = <<>> THEN new = <<>>
    ELSE \E o \in extract_product_data(ctx.cls, Head(elements), ctx.name, ctx.url, ctx.selectors) :
            IF o.ok /\ o.p.titre # <<>>
            THEN /\ new # <<>>
                 /\ Head(new) = o.p
                 /\ Explains(Tail(new), Tail(elements), ctx)
            ELSE Explains(new, Tail(elements), ctx)

C19_ElementFailuresNonFatal ==
    (InputKind = "page" /\ Select(input.page, ContainerSelector) # <<>>) =>
        LET elements == Select(input.page, ContainerSelector)
            next_url == get_next_page_url(input.page.links, input.url)
            stops == IsNone(next_url) \/ next_url.url = input.url
        IN  /\ pageLists # <<>>
            /\ Explains(pageLists[Len(pageLists)], elements,
                        [cls |-> cls, name |-> site.name \o site.category, url |-> input.url,
                         selectors |-> site.selectors])
            /\ pc = "delay" => (~stops /\ current_url = next_url.url)
            /\ stops => (pc \in {"return", "done"} /\ ended \in {"no_next", "self_link"})
            /\ ~stops => ended \notin {"no_next", "self_link"}

C19_Witness ==
    /\ InputKind = "page"
    /\ input.page.elems = <<ElemA, ElemBlank, ElemB>>
    /\ pc = "delay"
    /\ Len(pageLists[Len(pageLists)]) = 2

\* C20 (Spec): when the JSON body of a category does not parse, or mapping
\* one of its items raises, the crawl ends at that page after its single
\* fetch, returns normally, and returns exactly the products of the items
\* that came before the failure.
JsonItemsOf(c, body) ==
    LET json_data == IF c = "streamlit" /\ body.t = "dict" /\ "products" \in DOMAIN body.d
                     THEN body.d["products"] ELSE body
    IN  IF body.t = "invalid" THEN <<>>
        ELSE IF json_data.t = "list" THEN json_data.items ELSE <<json_data>>

C20_MalformedJson ==
    (ended = "json_error") =>
        /\ pc \in {"return", "done"}
        /\ Len(fetched) = 1
        /\ InputKind = "json"
        /\ LET items == JsonItemsOf(cls, input.body)
               bad == { i \in 1..Len(items) :
                          create_product_from_json(cls, items[i], site.category, input.url)
                              = {Raised} }
           IN  IF input.body.t = "invalid" THEN products = <<>>
               ELSE /\ bad # {}
                    /\ \E k \in bad :
                         /\ \A j \in bad : k <= j
                         /\ Len(products) = k - 1
                         /\ \A i \in 1..(k - 1) :
                              Returned(products[i]) \in
                                 create_product_from_json(cls, items[i], site.category,
                                                          input.url)
        /\ pc = "done" => ret = products

C20_Witness == ended = "json_error" /\ pc = "done" /\ Len(ret) = 1

\* C21 (SpecExtract): for a JSON object whose price is missing or not a
\* number, or whose rating is missing or not an object holding 'rate',
\* _create_product_from_json returns a product whose price is one of 19.99,
\* 29.99, 49.99, 79.99, 99.99 and whose rating is one of 3, 3.5, 4, 4.5, 5.
C21_JsonFieldDefaults ==
    (pc = "output" /\ input.kind = "json" /\ input.body.t = "dict"
       /\ "products" \notin DOMAIN input.body.d) =>
        LET d == input.body.d
            noPrice == "price" \notin DOMAIN d \/ d["price"].t # "num"
            noRate == \/ "rating" \notin DOMAIN d
                      \/ d["rating"].t # "dict"
                      \/ "rate" \notin DOMAIN d["rating"].d
        IN  (noPrice \/ noRate) =>
                /\ ~output.raised
                /\ Len(output.appended) = 1
                /\ noPrice => output.appended[1].prix \in PriceDefaults
                /\ noRate => output.appended[1].note_moyenne \in RatingDefaults

\* C22 (SpecExtract): _get_next_page_url returns the resolved URL of the first
\* candidate, in document order, that has an href and either a link text
\* containing 'next', 'suivant', '>' or '»' or the rel=next marker; it returns
\* None only when no candidate qualifies.
IsNextCandidate(link) ==
    /\ ~IsNone(link.href)
    /\ \/ link.rel
       \/ \E word \in NextWords : Contains(Lower(link.text), word)

C22_NextLinkRecognition ==
    (pc = "output" /\ input.kind = "links") =>
        LET qualifying == { i \in 1..Len(input.links) : IsNextCandidate(input.links[i]) }
        IN  IF qualifying = {} THEN output = None
            ELSE \E i \in qualifying :
                    /\ \A j \in qualifying : i <= j
                    /\ output = [t |-> "Url", url |-> urljoin(input.url, input.links[i].href.ref)]

\* C23 (Spec): after a page is extracted, if no next URL is found or the next
\* URL is the page's own URL, the crawl ends Done with no further fetch and
\* no politeness delay; otherwise the next URL becomes the current URL and
\* one more fetch is started exactly when the page cap allows.
C23_SelfLinkTermination ==
    (InputKind = "page" /\ SelectContainers(input.page).elements # <<>>) =>
        LET next_url == get_next_page_url(input.page.links, input.url)
            stops == IsNone(next_url) \/ next_url.url = input.url
            last == fetched[Len(fetched)]
        IN  /\ fetched # <<>>
            /\ stops =>
                  /\ pc \in {"return", "done"}
                  /\ ended \in {"no_next", "self_link"}
                  /\ Status = "Done"
                  /\ last = input.url
                  /\ current_url = input.url
                  /\ ~delayed
            /\ ~stops =>
                  /\ current_url = next_url.url
                  /\ IF last = input.url
                     THEN /\ pc \in {"delay", "loop", "return", "done"}
                          /\ pc \in {"return", "done"} =>
                                (ended = "cap" /\ page_count = max_pages)
                          /\ pc = "loop" => delayed
                     ELSE /\ Len(fetched) >= 2
                          /\ last = next_url.url
                          /\ fetched[Len(fetched) - 1] = input.url
                          /\ page_count <= max_pages
                          /\ pc \in {"request", "fetched", "return", "done"}

C23_Witness == pc = "done" /\ ended = "self_link" /\ page_count = 2 /\ max_pages = 3

\* C24 (SpecFetch): within one fetch the waits are 1, 2, 4, ... seconds, one
\* after each failed attempt that is followed by another attempt; a fetch
\* that fails all R >= 1 attempts has made R - 1 waits summing to
\* 2^(R-1) - 1 seconds; a fetch that succeeds at once has made none.
RECURSIVE SumSeq(_)
SumSeq(s) == IF s = <<>> THEN 0 ELSE Head(s) + SumSeq(Tail(s))

C24_BackoffSchedule ==
    /\ \A i \in 1..Len(waits) : waits[i] = IF i = 1 THEN 1 ELSE 2 * waits[i - 1]
    /\ (pc = "request" /\ attempt < retries) => Len(waits) = attempt
    /\ (pc = "fetched" /\ response = "None" /\ retries >= 1) =>
          /\ Len(waits) = retries - 1
          /\ SumSeq(waits) = Pow(2, retries - 1) - 1
    /\ (pc = "fetched" /\ response = "Response") => Len(waits) = gets - 1

C24_Witness ==
    pc = "fetched" /\ response = "None" /\ retries = DefaultRetries /\ waits = <<1, 2>>

\* C26 (SpecDriver): when a full-scrape run of the Streamlit driver has
\* finished after a stop request made it skip categories, stop_scraping is
\* False again.
C26_StopConsumed ==
    ( /\ pc = "finished"
      /\ cls = "streamlit"
      /\ Attempted # SelectedUnits(cls, selected, 1)
      /\ total_products < target_products ) => ~stop_scraping

\* C27 (SpecDriver): no category crawl is started, or running, once the
\* total has reached target_products; once the target is reached the total
\* exceeds it by less than the size of the last batch added; and the total is
\* the number of products in the aggregated collection.
WalkerPositions == {"loop", "request", "fetched", "delay", "return", "done"}

RECURSIVE BatchTotal(_, _)
BatchTotal(cs, k) == IF k = 0 THEN 0 ELSE BatchTotal(cs, k - 1) + Len(cs[k].ret)

C27_TargetCutoff ==
    /\ pc \in WalkerPositions => total_products < target_products
    /\ \A k \in 1..Len(crawls) : BatchTotal(crawls, k - 1) < target_products
    /\ (crawls # <<>> /\ total_products >= target_products) =>
          total_products - target_products < Len(crawls[Len(crawls)].ret)
    /\ total_products = BatchTotal(crawls, Len(crawls))
    /\ Len(all_products) = total_products

C27_Witness ==
    /\ pc = "finished"
    /\ target_products = 1
    /\ total_products = 2
    /\ Len(crawls) = 1

\* C28 (Spec): a markup page on which neither the configured container
\* selector nor any of the five fallback selectors matches ends the crawl at
\* that page: pagination is not evaluated, even with a valid next link on the
\* page, nothing more is fetched, and the products of the earlier pages are
\* returned unchanged.
C28_EmptyPageEnds ==
    ( /\ InputKind = "page"
      /\ Select(input.page, ContainerSelector) = <<>>
      /\ \A k \in 1..Len(AltSelectors) : Select(input.page, AltSelectors[k]) = <<>> ) =>
        /\ pc \in {"return", "done"}
        /\ ended = "empty_page"
        /\ fetched # <<>>
        /\ fetched[Len(fetched)] = input.url
        /\ current_url = input.url
        /\ ~delayed
        /\ Len(pageLists) = page_count - 1
        /\ products = Concat(pageLists)
        /\ pc = "done" => ret = Concat(pageLists)

C28_Witness ==
    /\ InputKind = "page"
    /\ input.page.elems = <<>>
    /\ input.page.links = <<NextLink(1)>>
    /\ input.url = 2
    /\ pc = "done"
    /\ ret # <<>>

(***************************************************************************)
(* ModelContextProtocol (run_mcp.py): permission check, audit, result.     *)
(***************************************************************************)

MaxCalls == 2

DataTypes == {"product_data", "user_data"}
Capabilities == {"recommendation", "export"}

\* the sections of mcp_permissions.json: an entry is true, false or absent
Sections(names) == UNION {[present -> BOOLEAN] : present \in SUBSET names}

PermissionDocs ==
    [data_access : Sections(DataTypes),
     capabilities : Sections({"recommendation"}),
     audit : [store_decisions : BOOLEAN]]

\* the context argument: its default None, or the caller's dictionary
Contexts == {None, [products |-> <<"Product A", "Product B">>]}

Requests ==
    [request_type : {"product_analysis"}, data_type : DataTypes,
     capability : Capabilities, context : Contexts]

\* dict.get(key, default)
DictGet(d, key, default) == IF key \in DOMAIN d THEN d[key] ELSE default

check_permission_either(p, data_type, capability) ==
    LET data_permitted == DictGet(p.data_access, data_type, FALSE)
        capability_permitted == DictGet(p.capabilities, capability, FALSE)
    IN  data_permitted \/ capability_permitted

check_permission(p, data_type, capability) ==
    LET data_permitted == DictGet(p.data_access, data_type, FALSE)
        capability_permitted == DictGet(p.capabilities, capability, FALSE)
    IN  data_permitted /\ capability_permitted

\* the two f-strings of process_request
DeniedText(data_type, capability) ==
    <<"Permission denied for", data_type, "with", capability>>

ApprovedText(data_type, capability) ==
    <<"Request for", capability, "on", data_type, "was processed successfully">>

\* the record log_interaction writes (the timestamp is left out)
Interaction(request_type, data_accessed, decision, explanation) ==
    [request_type |-> request_type, data_accessed |-> data_accessed,
     decision |-> decision, explanation |-> explanation]

\* the dictionary process_request returns
Result(request, decision) ==
    IF decision.decision = "denied"
    THEN [status |-> "error", message |-> decision.explanation]
    ELSE [status |-> "success", message |-> decision.explanation,
          context |-> request.context]

InitMcp ==
    /\ cls = "cli"
    /\ site = SiteBooks
    /\ max_pages = 1
    /\ retries = DefaultRetries
    /\ failedEmpty = FALSE
    /\ pc = "mcp_idle"
    /\ Entry
    /\ input = None
    /\ output = None
    /\ NoDriver
    /\ NoPair
    /\ NoSession
    /\ permissions \in PermissionDocs
    /\ audit_file = <<>>
    /\ audit_db = <<>>
    /\ replies = <<>>

\* process_request up to its call of log_interaction
McpDecide ==
    /\ pc = "mcp_idle"
    /\ Len(replies) < MaxCalls
    /\ \E request \in Requests :
          /\ input' = request
          /\ output' =
                IF ~check_permission(permissions, request.data_type, request.capability)
                THEN [decision |-> "denied",
                      explanation |-> DeniedText(request.data_type, request.capability)]
                ELSE [decision |-> "approved",
                      explanation |-> ApprovedText(request.data_type, request.capability)]
    /\ pc' = "mcp_log"
    /\ UNCHANGED <<args, locals, call, ret, history, driver, pair, session, mcp>>

\* log_interaction: always the file, the table when store_decisions is set
McpLog ==
    /\ pc = "mcp_log"
    /\ LET entry == Interaction(input.request_type, input.data_type,
                                output.decision, output.explanation)
       IN  /\ audit_file' = Append(audit_file, entry)
           /\ audit_db' = IF permissions.audit.store_decisions
                          THEN Append(audit_db, entry)
                          ELSE audit_db
    /\ pc' = "mcp_return"
    /\ UNCHANGED <<args, locals, call, ret, history, io, driver, pair, session,
                   permissions, replies>>

\* the return statement of process_request
McpReturn ==
    /\ pc = "mcp_return"
    /\ replies' = Append(replies, [request |-> input, result |-> Result(input, output)])
    /\ pc' = "mcp_idle"
    /\ UNCHANGED <<args, locals, call, ret, history, io, driver, pair, session,
                   permissions, audit_file, audit_db>>

NextMcp == McpDecide \/ McpLog \/ McpReturn

SpecMcp == InitMcp /\ [][NextMcp]_vars

\* an entry of a section of the permissions document grants the name
Granted(section, name) == name \in DOMAIN section /\ section[name] = TRUE

\* C30: every process_request call logs exactly one interaction before it
\* returns; the logged decision is "approved" exactly when the status is
\* "success", exactly when the data type and the capability are both granted
\* (an absent entry grants nothing); a denied request returns "error" and
\* no context.
C30_AuditedDecisions ==
    /\ Len(audit_file) = Len(replies) + (IF pc = "mcp_return" THEN 1 ELSE 0)
    /\ \A k \in 1..Len(replies) :
          LET q == replies[k].request
              r == replies[k].result
              a == audit_file[k]
              g == /\ Granted(permissions.data_access, q.data_type)
                   /\ Granted(permissions.capabilities, q.capability)
          IN  /\ a.decision \in {"approved", "denied"}
              /\ r.status \in {"success", "error"}
              /\ a.request_type = q.request_type
              /\ a.data_accessed = q.data_type
              /\ (a.decision = "approved") <=> (r.status = "success")
              /\ (r.status = "success") <=> g
              /\ ~g => "context" \notin DOMAIN r
              /\ g => r.context = q.context

C30_Witness ==
    /\ pc = "mcp_idle"
    /\ Len(replies) = 2
    /\ replies[1].result.status = "success"
    /\ replies[1].request.context # None
    /\ replies[2].result.status = "error"
    /\ replies[2].request.context # None
    /\ replies[2].request.data_type \notin DOMAIN permissions.data_access
    /\ Len(audit_file) = 2

(***************************************************************************)
(* The Streamlit session across one button action: the full scrape, the    *)
(* scrape of one site, the scrape of one category.                         *)
(***************************************************************************)

\* what an earlier action left in st.session_state.scraped_products
StoredProducts ==
    {<<>>} \cup ExtractAll("streamlit", <<ElemB, ElemA>>, <<"books", "demo", "mystery">>,
                           StartUrl, CssSelectors)

\* what an earlier action left in st.session_state.scraping_logs
StoredLogs == {<<>>, << [level |-> "INFO", message |-> <<"Scraping", "page", "1">>] >>}

InitSession ==
    /\ cls = "streamlit"
    /\ site = Unit(cls, 1, 1)
    /\ max_pages \in {1, MaxPagesCap}
    /\ retries = DefaultRetries
    /\ failedEmpty = FALSE
    /\ pc = "idle"
    /\ Entry
    /\ input = None
    /\ output = None
    /\ si = 1
    /\ ci = 0
    /\ selected \in {<<TRUE, TRUE>>, <<FALSE, TRUE>>}
    /\ target_products \in {1, MaxTarget}
    /\ total_products = 0
    /\ all_products \in StoredProducts
    /\ stop_scraping = FALSE
    /\ stopRequested = FALSE
    /\ crawls = <<>>
    /\ NoPair
    /\ mode = "none"
    /\ before = <<>>
    /\ stored_logs \in StoredLogs
    /\ NoMcp

\* a handler that empties the session whatever the button
ResetsSessionAlways(m) == TRUE
\* the two assignments of lines 867-868 stand in the full-scrape handler only
ResetsSession(m) == m = "full"

\* the call scraper.scrape_site_category(site_key, site_config, cat_name, ...)
CallWalker(i, j) ==
    /\ site' = Unit(cls, i, j)
    /\ pc' = "loop"
    /\ current_url' = StartUrl
    /\ page_count' = 0
    /\ products' = <<>>
    /\ ret' = <<>>
    /\ ended' = "none"
    /\ fetched' = <<>>
    /\ delayed' = FALSE
    /\ pageLists' = <<>>
    /\ input' = None

\* a button was pressed: the handler m starts on the session
Started(m) ==
    /\ mode' = m
    /\ before' = all_products
    /\ all_products' = IF ResetsSession(m) THEN <<>> ELSE all_products
    /\ stored_logs' = IF ResetsSession(m) THEN <<>> ELSE stored_logs
    /\ crawls' = <<>>
    /\ UNCHANGED <<cls, max_pages, retries, call, failedEmpty, output, selected,
                   target_products, stop_scraping, stopRequested, pair, mcp>>

\* if st.session_state.get('start_full_scraping', False): the two resets,
\* total_products = 0, then the site loop
StartFull ==
    /\ pc = "idle"
    /\ Started("full")
    /\ total_products' = 0
    /\ si' = 1
    /\ ci' = 0
    /\ pc' = "site_loop"
    /\ UNCHANGED <<site, locals, ret, ended, fetched, delayed, pageLists, input>>

\* if st.session_state.get(f'scrape_site_{site_key}', False): the loop over
\* the categories of that site starts
StartSite ==
    /\ pc = "idle"
    /\ Started("site")
    /\ \E i \in 1..Len(DriverSites(cls)) : si' = i
    /\ ci' = 1
    /\ pc' = "site_categories"
    /\ UNCHANGED <<site, locals, ret, ended, fetched, delayed, pageLists, input,
                   total_products>>

\* for cat_name, cat_path in site_config['categories'].items(): of the
\* per-site handler, with no test before the call
SiteCategories ==
    /\ pc = "site_categories"
    /\ mode = "site"
    /\ IF ci > Len(DriverSites(cls)[si].categories)
       THEN /\ pc' = "finished"
            /\ UNCHANGED <<site, locals, ret, ended, fetched, delayed, pageLists, input>>
       ELSE CallWalker(si, ci)
    /\ UNCHANGED <<cls, max_pages, retries, call, failedEmpty, output, driver, aux>>

\* if st.session_state.get(f'scrape_cat_{site_key}_{cat_name}', False): one call
StartCategory ==
    /\ pc = "idle"
    /\ Started("category")
    /\ \E i \in 1..Len(DriverSites(cls)) :
         \E j \in 1..Len(DriverSites(cls)[i].categories) :
            /\ si' = i
            /\ ci' = j
            /\ CallWalker(i, j)
    /\ UNCHANGED total_products

\* where the per-site and the per-category handler go on after a call
AfterCall == IF mode = "site" THEN "site_categories" ELSE "finished"

\* the call returned: if products: st.session_state.scraped_products.extend(products)
SessionCollect ==
    /\ pc = "done"
    /\ mode \in {"site", "category"}
    /\ all_products' = IF ret # <<>> THEN Extend(all_products, ret) ELSE all_products
    /\ crawls' = Append(crawls, [site |-> site.name, category |-> site.category,
                                 how |-> ended, ret |-> ret])
    /\ ci' = ci + 1
    /\ pc' = AfterCall
    /\ UNCHANGED <<args, locals, call, ret, history, io, si, selected, target_products,
                   total_products, stop_scraping, stopRequested, aux>>

\* the call raised: except Exception as e: log_message(...)
SessionRaises ==
    /\ pc = "fetched"
    /\ mode \in {"site", "category"}
    /\ response # "None"
    /\ ~IsJsonSite(cls, site.name)
    /\ \E e \in ParseErrors :
         IF DriverCatches(e)
         THEN /\ crawls' = Append(crawls, [site |-> site.name, category |-> site.category,
                                           how |-> "raised", ret |-> <<>>])
              /\ ci' = ci + 1
              /\ pc' = AfterCall
         ELSE /\ pc' = "aborted"
              /\ UNCHANGED <<ci, crawls>>
    /\ CallRead
    /\ UNCHANGED <<args, locals, ret, history, io, si, selected, target_products,
                   total_products, all_products, stop_scraping, stopRequested, aux>>

\* the steps of the full-scrape handler
FullSiteLoop == mode = "full" /\ SiteLoop
FullCatLoop == mode = "full" /\ CatLoop
FullCollect == mode = "full" /\ Collect
FullRaises == mode = "full" /\ ParseRaises
FullStop == mode = "full" /\ RequestStop

NextSession ==
    \/ StartFull
    \/ StartSite
    \/ StartCategory
    \/ SiteCategories
    \/ FullSiteLoop
    \/ FullCatLoop
    \/ Loop
    \/ GetOk
    \/ GetFail
    \/ GiveUp
    \/ FetchFailed
    \/ ProcessJson
    \/ ProcessMarkup
    \/ RandomDelay
    \/ Return
    \/ FullCollect
    \/ FullRaises
    \/ FullStop
    \/ SessionCollect
    \/ SessionRaises

SpecSession == InitSession /\ [][NextSession]_vars

\* list a is the beginning of list b
IsPrefix(a, b) == Len(a) <= Len(b) /\ \A k \in 1..Len(a) : b[k] = a[k]

\* C29 (SpecSession): a full scrape has emptied scraped_products and the log
\* buffer before its first fetch; under the per-site and the per-category
\* action what was stored stays in place, unchanged and in order, and the
\* collection only grows.
C29_ResetVersusAppend ==
    /\ [](/\ (mode = "full" /\ crawls = <<>>) =>
                (all_products = <<>> /\ stored_logs = <<>>)
          /\ mode = "full" => stored_logs = <<>>
          /\ mode \in {"site", "category"} =>
                /\ IsPrefix(before, all_products)
                /\ all_products =
                      before \o Concat([k \in 1..Len(crawls) |-> crawls[k].ret]))
    /\ [][(mode \in {"site", "category"} \/ mode' \in {"site", "category"}) =>
             IsPrefix(all_products, all_products')]_vars

C29_Witness ==
    /\ mode = "site"
    /\ pc = "finished"
    /\ Len(before) = 2
    /\ Len(crawls) = 2
    /\ crawls[1].ret # <<>>
    /\ crawls[2].ret # <<>>
    /\ Len(all_products) > 3

(***************************************************************************)
(* Two scrape_site_category calls on one scraper, on the two categories of *)
(* books_demo, their steps interleaved.  frames holds, for each call, its  *)
(* position (at), the result of its _make_request (response) and its      *)
(* locals (state).                                                         *)
(***************************************************************************)

Walkers == {1, 2}

\* the arguments of call i
PairUnit(c, i) == Unit(c, 1, i)

\* what the category of call i serves: the two categories hold different products
PairElem(i) == IF i = 1 THEN ElemA ELSE ElemB
PairPages(i) ==
    [elems : { <<>>, <<PairElem(i)>> },
     links : {<<>>} \cup { <<NextLink(ref)>> : ref \in Urls }]

\* one set of locals held by the scraper object
FrameOnScraper(i) == 1
\* products = [], current_url = url, page_count = 0 are locals of the call
Frame(i) == i

InitPair ==
    /\ cls \in {"cli", "streamlit"}
    /\ site = PairUnit(cls, 1)
    /\ max_pages \in 1..MaxPagesCap
    /\ retries = DefaultRetries
    /\ failedEmpty = FALSE
    /\ pc = "pair"
    /\ Entry
    /\ input = None
    /\ output = None
    /\ NoDriver
    /\ frames = [at |-> [i \in Walkers |-> "loop"],
                 response |-> [i \in Walkers |-> "None"],
                 state |-> [i \in Walkers |->
                              [current_url |-> StartUrl, page_count |-> 0, products |-> <<>>]]]
    /\ own = [i \in Walkers |-> <<>>]
    /\ rets = [i \in Walkers |-> <<>>]
    /\ NoSession
    /\ NoMcp

\* the variables a step of the pair leaves alone
PairFrame ==
    UNCHANGED <<args, pc, locals, call, ret, history, io, driver, session, mcp>>

\* while current_url and page_count < max_pages: page_count += 1
PairLoop(i) ==
    /\ frames.at[i] = "loop"
    /\ LET s == frames.state[Frame(i)]
       IN  IF LoopCondition(s.page_count, max_pages)
           THEN frames' = [frames EXCEPT !.at[i] = "request",
                                         !.state[Frame(i)].page_count = s.page_count + 1]
           ELSE frames' = [frames EXCEPT !.at[i] = "return"]
    /\ UNCHANGED <<own, rets>>
    /\ PairFrame

\* response = self._make_request(current_url): a response or None
PairRequest(i) ==
    /\ frames.at[i] = "request"
    /\ \E r \in {"Response", "None"} :
          frames' = [frames EXCEPT !.at[i] = "fetched", !.response[i] = r]
    /\ UNCHANGED <<own, rets>>
    /\ PairFrame

\* if not response: break
PairFetchFailed(i) ==
    /\ frames.at[i] = "fetched"
    /\ frames.response[i] = "None"
    /\ frames' = [frames EXCEPT !.at[i] = "return"]
    /\ own' = [own EXCEPT ![i] = Append(@, [url |-> frames.state[Frame(i)].current_url,
                                            list |-> <<>>])]
    /\ UNCHANGED rets
    /\ PairFrame

\* the markup branch: container selection, the extraction loop, pagination
PairMarkup(i) ==
    /\ frames.at[i] = "fetched"
    /\ frames.response[i] # "None"
    /\ \E page \in PairPages(i) :
         LET s == frames.state[Frame(i)]
             unit == PairUnit(cls, i)
             sel == SelectContainers(page)
             next_url == get_next_page_url(page.links, s.current_url)
         IN  IF NoProducts(sel.elements)
             THEN /\ frames' = [frames EXCEPT !.at[i] = "return", !.response[i] = "None"]
                  /\ own' = [own EXCEPT ![i] = Append(@, [url |-> s.current_url,
                                                          list |-> <<>>])]
             ELSE \E new \in ExtractAll(cls, sel.elements, unit.name \o unit.category,
                                        s.current_url, unit.selectors) :
                    /\ own' = [own EXCEPT ![i] = Append(@, [url |-> s.current_url,
                                                            list |-> new])]
                    /\ IF StopsPaging(next_url, s.current_url)
                       THEN frames' = [frames EXCEPT
                                          !.at[i] = "return",
                                          !.response[i] = "None",
                                          !.state[Frame(i)].products = s.products \o new]
                       ELSE frames' = [frames EXCEPT
                                          !.at[i] = "delay",
                                          !.response[i] = "None",
                                          !.state[Frame(i)].products = s.products \o new,
                                          !.state[Frame(i)].current_url = next_url.url]
    /\ UNCHANGED rets
    /\ PairFrame

\* self._random_delay(1, 3)
PairDelay(i) ==
    /\ frames.at[i] = "delay"
    /\ frames' = [frames EXCEPT !.at[i] = "loop"]
    /\ UNCHANGED <<own, rets>>
    /\ PairFrame

\* return products
PairReturn(i) ==
    /\ frames.at[i] = "return"
    /\ frames' = [frames EXCEPT !.at[i] = "done"]
    /\ rets' = [rets EXCEPT ![i] = frames.state[Frame(i)].products]
    /\ UNCHANGED own
    /\ PairFrame

NextPair ==
    \E i \in Walkers :
       \/ PairLoop(i)
       \/ PairRequest(i)
       \/ PairFetchFailed(i)
       \/ PairMarkup(i)
       \/ PairDelay(i)
       \/ PairReturn(i)

SpecPair == InitPair /\ [][NextPair]_vars

\* the lists the pages served to call i gave, one after the other
OwnProducts(i) == Concat([k \in 1..Len(own[i]) |-> own[i][k].list])

\* the pages call i has entered: one more than it has finished while it is
\* between the loop test and the end of the body
Entered(i) == Len(own[i]) + (IF frames.at[i] \in {"request", "fetched"} THEN 1 ELSE 0)

\* C25 (SpecPair): under every interleaving of two category crawls on one
\* scraper, the URL, the page counter and the accumulated products of each
\* crawl are what its own pages made them, each crawl returns the list it
\* builds from its own pages alone, and no product of one crawl is in the
\* result of the other.
C25_WalkerIndependence ==
    \A i \in Walkers :
       LET s == frames.state[i]
       IN  /\ s.products = OwnProducts(i)
           /\ s.page_count = Entered(i)
           /\ s.page_count <= max_pages
           /\ \A k \in 1..Len(own[i]) :
                 /\ own[i][k].url \in Urls
                 /\ k = 1 => own[i][k].url = StartUrl
           /\ frames.at[i] \in {"loop", "request", "fetched"} =>
                 s.current_url # (IF own[i] = <<>> THEN 0 ELSE own[i][Len(own[i])].url)
           /\ frames.at[i] = "done" => rets[i] = OwnProducts(i)
           /\ \A j \in Walkers \ {i} :
                 \A k \in 1..Len(rets[i]) : ~InSeq(rets[i][k], OwnProducts(j))

C25_Witness ==
    /\ frames.at[1] = "done"
    /\ frames.at[2] = "done"
    /\ Len(rets[1]) = 2
    /\ Len(rets[2]) = 2
    /\ rets[1] # rets[2]

=============================================================================
